---- MODULE Spec2Model ----
(***************************************************************************)
(* A model of WebCrawler.py: IntelligentWebCrawler drives one Selenium     *)
(* driver through the product pages of the registered retailers, one       *)
(* crawl_retailer call per requested retailer on a ThreadPoolExecutor.     *)
(*                                                                         *)
(* Texts are sequences of one-character strings, so that strip(), the      *)
(* price regex and float() are computed and not assumed.                   *)
(***************************************************************************)
EXTENDS Integers, Sequences, FiniteSets, TLC

\* ------------------------------------------------------------------ bounds
\* Longest explicit retailer list handed to parallel_crawl.
MaxReq == 4
\* Driver calls the environment may make fail in one crawl cycle.
MaxFailures == 1
\* Preemptions of a thread that could go on, in one crawl cycle.
MaxSwitches == 1
\* Most containers of a document in the single-page extraction runs.
MaxContainers == 2

\* ------------------------------------------------------- program constants
\* ThreadPoolExecutor(max_workers=3)
max_workers == 3
\* _scroll_page(self, driver, max_scrolls=5)
max_scrolls == 5

\* --------------------------------------------------------------- texts
Digits == {"0", "1", "2", "3", "4", "5", "6", "7", "8", "9"}

DigitVal(c) ==
    CASE c = "0" -> 0 [] c = "1" -> 1 [] c = "2" -> 2 [] c = "3" -> 3
      [] c = "4" -> 4 [] c = "5" -> 5 [] c = "6" -> 6 [] c = "7" -> 7
      [] c = "8" -> 8 [] c = "9" -> 9

IsSpace(c) == c \in {" ", "\t", "\n"}

RECURSIVE LStrip(_)
LStrip(t) == IF t # <<>> /\ IsSpace(Head(t)) THEN LStrip(Tail(t)) ELSE t

RECURSIVE RStrip(_)
RStrip(t) ==
    IF t # <<>> /\ IsSpace(t[Len(t)]) THEN RStrip(SubSeq(t, 1, Len(t) - 1)) ELSE t

\* str.strip()
Strip(t) == RStrip(LStrip(t))

IsPriceChar(c) == c \in Digits \/ c = "."

\* re.sub(r'[^\d.]', '', price_text)
CleanPrice(t) == SelectSeq(t, IsPriceChar)

IsDot(c) == c = "."
IsDigit(c) == c \in Digits

\* The position of the first "." of t, or 0.
RECURSIVE DotPos(_, _)
DotPos(t, i) ==
    IF i > Len(t) THEN 0 ELSE IF t[i] = "." THEN i ELSE DotPos(t, i + 1)

RECURSIVE DigitsVal(_, _)
DigitsVal(t, acc) ==
    IF t = <<>> THEN acc ELSE DigitsVal(Tail(t), 10 * acc + DigitVal(Head(t)))

RECURSIVE Pow10(_)
Pow10(k) == IF k = 0 THEN 1 ELSE 10 * Pow10(k - 1)

\* A number as the reduced decimal fraction num / den, den a power of ten.
RECURSIVE Reduce(_, _)
Reduce(n, d) ==
    IF d > 1 /\ n % 10 = 0 THEN Reduce(n \div 10, d \div 10)
    ELSE [num |-> n, den |-> d]

\* float(s) on a string of digits and points accepts it iff it holds one
\* point at most and one digit at least.
FloatOk(s) ==
    /\ Len(SelectSeq(s, IsDot)) <= 1
    /\ Len(SelectSeq(s, IsDigit)) >= 1

FloatVal(s) ==
    LET p == DotPos(s, 1)
        frac == IF p = 0 THEN 0 ELSE Len(s) - p
    IN  Reduce(DigitsVal(SelectSeq(s, IsDigit), 0), Pow10(frac))

\* float(re.sub(r'[^\d.]', '', price_text)): the value, or a ValueError.
ValueError == [num |-> -1, den |-> 0]
ParsePrice(t) ==
    LET s == CleanPrice(t) IN IF FloatOk(s) THEN FloatVal(s) ELSE ValueError


\* ------------------------------------------------------------ the registry
\* RetailCrawlerConfig.RETAILERS, in key order.
RETAILERS == <<"pick_n_pay", "checkers", "woolworths">>
RetailerKeys == {RETAILERS[i] : i \in 1..Len(RETAILERS)}

product_pages(r) ==
    CASE r = "pick_n_pay" -> <<"pnp/All-Products", "pnp/Groceries", "pnp/Personal-Care">>
      [] r = "checkers"   -> <<"checkers/all-products", "checkers/groceries",
                               "checkers/personal-care">>
      [] r = "woolworths" -> <<"woolworths/Food", "woolworths/Personal-Care">>

\* crawl_strategy.get('scroll_pagination'); woolworths sets 'infinite_scroll',
\* a key no code reads.
scroll_pagination(r) == r \in {"pick_n_pay", "checkers"}
\* The 'infinite_scroll' entry of the crawl_strategy of line 83.
infinite_scroll(r) == r = "woolworths"

wait_element(r) == IF r = "woolworths" THEN ".product-list" ELSE ".product-grid"

product_container(r) == IF r = "checkers" THEN ".product-card" ELSE ".product-item"
name_selector(r) == IF r = "checkers" THEN ".product-title" ELSE ".product-name"
price_selector(r) == IF r = "checkers" THEN ".current-price" ELSE ".price"

Pages == UNION {{product_pages(r)[i] : i \in 1..Len(product_pages(r))} : r \in RetailerKeys}
Blank == "about:blank"

\* The retailer whose site serves page p: its documents carry the classes its
\* configuration names.
PageSite(p) ==
    CHOOSE r \in RetailerKeys : \E i \in 1..Len(product_pages(r)) : product_pages(r)[i] = p

\* -------------------------------------------------------------- requests
\* A retailer identifier that is no key of the registry, and one that is not
\* hashable (a list), for which dict.get and dict.__setitem__ raise TypeError.
Unregistered == "spar"
Unhashable == "['checkers']"
Hashable(x) == x # Unhashable

SeqsUpTo(S, n) == UNION {[1..k -> S] : k \in 0..n}

\* parallel_crawl(retailers=None): no argument, or an explicit list: any list
\* of up to MaxReq identifiers that name no retailer, each registered retailer
\* alone, and each registered retailer named twice or beside an unhashable one.
NoArg == [given |-> FALSE, list |-> <<>>]
ExplicitLists ==
    SeqsUpTo({Unregistered, Unhashable}, MaxReq)
    \cup {<<r>> : r \in RetailerKeys}
    \cup {<<r, r>> : r \in RetailerKeys}
    \cup {<<r, Unhashable>> : r \in RetailerKeys}
Requests == {NoArg} \cup {[given |-> TRUE, list |-> l] : l \in ExplicitLists}

\* ------------------------------------------------------------- documents
\* A product container of a document: its name and price elements, each
\* present or not, with their raw text.
Container(hn, n, hp, p) == [has_name |-> hn, name |-> n, has_price |-> hp, price |-> p]
\* The text slot of an element the container does not have.
NoElement == <<>>

T_Milk == <<"M", "i", "l", "k", " ">>
T_Tea == <<"T", "e", "a">>
T_Rusk == <<"R", "u", "s", "k">>
T_BlankName == <<" ", " ">>
P_Dollar == <<"$", "1", ",", "2", "9", "9", ".", "9", "9">>
P_Rand == <<"R", " ", "1", " ", "2", "9", "9", ",", "9", "9">>
P_Plain == <<"1", "2", "9", "9", ".", "9", "9">>
P_OutOfStock == <<"O", "u", "t", " ", "o", "f", " ", "s", "t", "o", "c", "k">>
P_TwoPoints == <<"1", ".", "2", ".", "3">>
P_Cheap == <<" ", "R", "7", ".", "5", "0">>

\* The live sites during the crawl cycles of Spec.
SiteContent ==
    [p \in Pages |->
        CASE p = "pnp/All-Products" ->
                <<Container(TRUE, T_Milk, TRUE, P_Dollar),
                  Container(TRUE, T_BlankName, TRUE, P_Rand)>>
          [] p = "pnp/Personal-Care" ->
                <<Container(TRUE, T_Rusk, TRUE, P_Cheap)>>
          [] p = "checkers/all-products" ->
                <<Container(FALSE, NoElement, TRUE, P_Plain),
                  Container(TRUE, T_Tea, TRUE, P_Plain)>>
          [] p = "checkers/groceries" ->
                <<Container(TRUE, T_Tea, TRUE, P_OutOfStock)>>
          [] OTHER -> <<>>]

\* The containers the single-page extraction runs draw their documents from:
\* the name element absent, blank or a name; the price element absent or one
\* of the price texts.
ContainerKinds ==
    {Container(TRUE, n, TRUE, p) :
        n \in {T_Milk, T_BlankName},
        p \in {P_Dollar, P_Rand, P_Plain, P_OutOfStock, P_TwoPoints}}
    \cup {Container(FALSE, NoElement, TRUE, p) :
        p \in {P_Dollar, P_Rand, P_Plain, P_OutOfStock, P_TwoPoints}}
    \cup {Container(TRUE, n, FALSE, NoElement) : n \in {T_Milk, T_BlankName}}
    \cup {Container(FALSE, NoElement, FALSE, NoElement)}
Documents == SeqsUpTo(ContainerKinds, MaxContainers)


\* ------------------------------------------------------------------ state
VARIABLES
    driver,                 \* self.driver: TRUE an open session, FALSE None or quit
    cur,                    \* the page the driver session has loaded
    web,                    \* the sites: page -> document (its containers)
    failures,               \* driver calls the environment has made fail
    mpc,                    \* where the caller of parallel_crawl is
    retailers,              \* parallel_crawl's list, after defaulting
    ust,                    \* per unit: the state of its future
    pc,                     \* per unit: where crawl_retailer is
    pg,                     \* per unit: index of the product page of the loop
    containers,             \* per unit: the container handles still to read
    stale,                  \* per unit: its handles are of a replaced document
    products,               \* per unit: _extract_products' local list
    retailer_products,      \* per unit: crawl_retailer's accumulated list
    navigated,              \* per unit: the pages passed to driver.get, in order
    errors,                 \* per unit: pages for which an error was logged
    found,                  \* per unit: containers its queries have returned
    scrolled,               \* per unit: scroll actions done on the current page
    ci,                     \* per unit: index of the container the loop is at
    all_products,           \* parallel_crawl's result map
    successful_retailers,   \* self.successful_retailers
    crawl_errors,           \* units whose collection logged "Error crawling"
    active,                 \* the thread that took the last step: 0 the caller, u a unit
    switches,               \* preemptions so far
    csv,                    \* the files _save_to_csv has written
    collection              \* self.collection: retailer -> documents inserted

vars == <<driver, cur, web, failures, mpc, retailers, ust, pc, pg, containers, stale,
          products, retailer_products, navigated, errors, found, scrolled, ci,
          all_products, successful_retailers, crawl_errors, active, switches, csv,
          collection>>

unitVars == <<ust, pc, pg, containers, stale, products, retailer_products, navigated,
              errors, found, scrolled, ci>>
callerVars == <<mpc, retailers, all_products, successful_retailers, crawl_errors, csv,
               collection>>
schedVars == <<active, switches>>

Units == 1..Len(retailers)
Running == {u \in Units : ust[u] = "running"}
EmptyMap == [r \in {} |-> <<>>]

\* IntelligentWebCrawler(): _setup_selenium returns the driver, or logs the
\* failure and returns None; the constructor goes on either way.
Init ==
    /\ driver \in BOOLEAN
    /\ cur = Blank
    /\ web = SiteContent
    /\ failures = 0
    /\ mpc = "constructed"
    /\ retailers = <<>>
    /\ ust = <<>> /\ pc = <<>> /\ pg = <<>> /\ containers = <<>> /\ stale = <<>>
    /\ products = <<>> /\ retailer_products = <<>> /\ navigated = <<>>
    /\ errors = <<>> /\ found = <<>> /\ scrolled = <<>> /\ ci = <<>>
    /\ all_products = EmptyMap
    /\ successful_retailers = <<>>
    /\ crawl_errors = {}
    /\ active = 0 /\ switches = 0
    /\ csv = EmptyMap
    /\ collection = EmptyMap

\* ------------------------------------------------------------- scheduling
\* Thread t can take a step: the caller unless it waits in as_completed for a
\* future or has returned, a unit while it runs.
CanStep(t) ==
    IF t = 0
    THEN \/ mpc \in {"constructed", "submit"}
         \/ /\ mpc = "collect"
            /\ \/ \E u \in Units : ust[u] \in {"done", "raised"}
               \/ \A u \in Units : ust[u] = "collected"
    ELSE t \in Units /\ ust[t] = "running"

\* Thread t takes the step; taking it from a thread that could go on is a
\* preemption, and a crawl cycle sees MaxSwitches of them at most.
Sched(t) ==
    /\ \/ active = t
       \/ ~CanStep(active)
       \/ switches < MaxSwitches
    /\ active' = t
    /\ switches' = IF active # t /\ CanStep(active) THEN switches + 1 ELSE switches

\* ------------------------------------------------------------ parallel_crawl
\* `if not retailers`: None and the empty list both select every registered key.
DefaultedList(req) == IF req.list = <<>> THEN RETAILERS ELSE req.list

\* parallel_crawl(retailers) is entered: the list is defaulted, the result map
\* is empty and the executor is created.
ParallelCrawl(req) ==
    /\ mpc = "constructed"
    /\ Sched(0)
    /\ mpc' = "submit"
    /\ retailers' = DefaultedList(req)
    /\ LET n == Len(DefaultedList(req)) IN
        /\ ust' = [u \in 1..n |-> "new"]
        /\ pc' = [u \in 1..n |-> "entry"]
        /\ pg' = [u \in 1..n |-> 0]
        /\ containers' = [u \in 1..n |-> <<>>]
        /\ stale' = [u \in 1..n |-> FALSE]
        /\ products' = [u \in 1..n |-> <<>>]
        /\ retailer_products' = [u \in 1..n |-> <<>>]
        /\ navigated' = [u \in 1..n |-> <<>>]
        /\ errors' = [u \in 1..n |-> 0]
        /\ found' = [u \in 1..n |-> 0]
        /\ scrolled' = [u \in 1..n |-> 0]
        /\ ci' = [u \in 1..n |-> 0]
    /\ all_products' = EmptyMap
    /\ crawl_errors' = {}
    /\ UNCHANGED <<driver, cur, web, failures, successful_retailers, csv, collection>>

\* executor.submit(self.crawl_retailer, retailer), in list order; the loop over
\* as_completed begins once the last one is submitted.
Submit(u) ==
    /\ mpc = "submit"
    /\ Sched(0)
    /\ ust[u] = "new"
    /\ \A v \in 1..(u - 1) : ust[v] # "new"
    /\ ust' = [ust EXCEPT ![u] = "pending"]
    /\ mpc' = IF u = Len(retailers) THEN "collect" ELSE mpc
    /\ UNCHANGED <<driver, cur, web, failures, retailers, pc, pg, containers, stale,
                   products, retailer_products, navigated, errors, found, scrolled, ci,
                   all_products, successful_retailers, crawl_errors, csv, collection>>

\* A worker thread of the pool takes the oldest queued work item; the pool has
\* max_workers threads. Taking the item preempts no crawl.
PoolAlwaysStarts == TRUE
PoolHasIdleWorker == Cardinality(Running) < max_workers

StartUnit(u) ==
    /\ ust[u] = "pending"
    /\ \A v \in 1..(u - 1) : ust[v] # "pending"
    /\ PoolHasIdleWorker
    /\ ust' = [ust EXCEPT ![u] = "running"]
    /\ UNCHANGED <<driver, cur, web, failures, pc, pg, containers, stale, products,
                   retailer_products, navigated, errors, found, scrolled, ci>>
    /\ UNCHANGED callerVars
    /\ UNCHANGED schedVars

\* ------------------------------------------------------------ crawl_retailer
\* The future of unit u is set: crawl_retailer returned, or an exception left it.
Returns(u) == ust' = [ust EXCEPT ![u] = "done"] /\ pc' = [pc EXCEPT ![u] = "end"]
Raises(u) == ust' = [ust EXCEPT ![u] = "raised"] /\ pc' = [pc EXCEPT ![u] = "end"]

\* Lines 132-141: no driver, or no configuration for the key, returns [];
\* RETAILERS.get of an unhashable key raises TypeError outside every try.
\* Line 141, retailer_products = []: the list of a call is new and empty.
ListOfCallBefore(u) == IF u > 1 THEN retailer_products[u - 1] ELSE <<>>
NewList(u) == <<>>

Entry(u) ==
    /\ ust[u] = "running" /\ pc[u] = "entry"
    /\ Sched(u)
    /\ IF ~driver THEN Returns(u) /\ UNCHANGED <<pg, retailer_products>>
       ELSE IF ~Hashable(retailers[u]) THEN Raises(u) /\ UNCHANGED <<pg, retailer_products>>
       ELSE IF retailers[u] \notin RetailerKeys
            THEN Returns(u) /\ UNCHANGED <<pg, retailer_products>>
       ELSE /\ pc' = [pc EXCEPT ![u] = "get"]
            /\ pg' = [pg EXCEPT ![u] = 1]
            /\ retailer_products' = [retailer_products EXCEPT ![u] = NewList(u)]
            /\ ust' = ust
    /\ UNCHANGED <<driver, cur, web, failures, containers, stale, products,
                   navigated, errors, found, scrolled, ci>>
    /\ UNCHANGED callerVars

\* The session the navigate, wait, scroll and query calls of unit u go to:
\* crawl_retailer and _extract_products make every call on self.driver, the one
\* session the constructor started.
SessionOf(u) == "self.driver"

PageOf(u) == product_pages(retailers[u])[pg[u]]
LastPage(u) == pg[u] = Len(product_pages(retailers[u]))

\* The loop is done with the page of unit u: the products of the page are
\* appended (line 160), an error is logged (line 165, or line 220 within
\* _extract_products) or the count is (line 162), and the loop takes the next
\* page or crawl_retailer returns retailer_products (line 167).
NextPage(u) ==
    IF LastPage(u) THEN Returns(u) /\ pg' = pg
    ELSE /\ pc' = [pc EXCEPT ![u] = "get"]
         /\ pg' = [pg EXCEPT ![u] = @ + 1]
         /\ ust' = ust

\* After the except clause of lines 164-165 the for loop goes on.
AfterErrorStop(u) == Returns(u) /\ pg' = pg
AfterError(u) == NextPage(u)

\* Line 160, retailer_products.extend(products): the products of the page go
\* behind those of the pages before it.
ExtendFront(acc, new) == new \o acc
Extend(acc, new) == acc \o new

LeavePage(u, failed, new) ==
    /\ retailer_products' = [retailer_products EXCEPT ![u] = Extend(@, new)]
    /\ errors' = [errors EXCEPT ![u] = IF failed THEN @ + 1 ELSE @]
    /\ containers' = [containers EXCEPT ![u] = <<>>]
    /\ stale' = [stale EXCEPT ![u] = FALSE]
    /\ products' = [products EXCEPT ![u] = <<>>]
    /\ scrolled' = [scrolled EXCEPT ![u] = 0]
    /\ ci' = [ci EXCEPT ![u] = 0]
    /\ IF failed THEN AfterError(u) ELSE NextPage(u)

\* The except clause of line 164: the error is logged and the loop goes on.
PageErrorEscapes(u) ==
    /\ Raises(u)
    /\ UNCHANGED <<pg, containers, stale, products, retailer_products, errors, found,
                   scrolled, ci>>
PageError(u) == LeavePage(u, TRUE, <<>>) /\ found' = found

MayFail == failures < MaxFailures
Fails == failures' = failures + 1

\* Line 146, self.driver.get(product_page): the session loads the page, which
\* ends the life of every element handle of the document it replaces; or the
\* navigation raises.
Get(u) ==
    /\ ust[u] = "running" /\ pc[u] = "get"
    /\ Sched(u)
    /\ navigated' = [navigated EXCEPT ![u] = Append(@, PageOf(u))]
    /\ \/ /\ cur' = PageOf(u)
          /\ stale' = [v \in Units |-> stale[v] \/ containers[v] # <<>>]
          /\ pc' = [pc EXCEPT ![u] = "wait"]
          /\ UNCHANGED <<failures, ust, pg, containers, products, retailer_products,
                         errors, found, scrolled, ci>>
       \/ /\ MayFail /\ Fails
          /\ PageError(u)
          /\ cur' = cur
    /\ UNCHANGED <<driver, web>>
    /\ UNCHANGED callerVars

\* The document the session holds shows the element of selector sel.
Present(sel, page) == page # Blank /\ wait_element(PageSite(page)) = sel

\* Lines 149-152, WebDriverWait(self.driver, 10).until(presence of
\* wait_element): polls the session's current document; TimeoutException when
\* the element does not show within the deadline.
Wait(u) ==
    /\ ust[u] = "running" /\ pc[u] = "wait"
    /\ Sched(u)
    /\ \/ /\ Present(wait_element(retailers[u]), cur)
          /\ pc' = [pc EXCEPT ![u] =
                      IF scroll_pagination(retailers[u]) THEN "scroll" ELSE "find"]
          /\ UNCHANGED <<failures, ust, pg, containers, stale, products,
                         retailer_products, errors, found, scrolled, ci>>
       \/ /\ ~Present(wait_element(retailers[u]), cur)
          /\ PageError(u)
          /\ failures' = failures
       \/ /\ Present(wait_element(retailers[u]), cur)
          /\ MayFail /\ Fails
          /\ PageError(u)
    /\ UNCHANGED <<driver, cur, web, navigated>>
    /\ UNCHANGED callerVars

\* Lines 155-156 and _scroll_page: max_scrolls scroll scripts, each followed by
\* a sleep; a script that raises ends the page.
ScrollPage(u) ==
    /\ ust[u] = "running" /\ pc[u] = "scroll"
    /\ Sched(u)
    /\ \/ /\ scrolled' = [scrolled EXCEPT ![u] = max_scrolls]
          /\ pc' = [pc EXCEPT ![u] = "find"]
          /\ UNCHANGED <<failures, ust, pg, containers, stale, products,
                         retailer_products, errors, found, ci>>
       \/ /\ MayFail /\ Fails
          /\ PageError(u)
    /\ UNCHANGED <<driver, cur, web, navigated>>
    /\ UNCHANGED callerVars


\* ---------------------------------------------------------- _extract_products
\* find_elements(By.CSS_SELECTOR, sel) on the document the session holds: its
\* containers of that class, in document order, each handle knowing its site.
QueryContainers(sel, page) ==
    IF page # Blank /\ product_container(PageSite(page)) = sel
    THEN [i \in 1..Len(web[page]) |->
            [site |-> PageSite(page), has_name |-> web[page][i].has_name,
             name |-> web[page][i].name, has_price |-> web[page][i].has_price,
             price |-> web[page][i].price]]
    ELSE <<>>

Product(name, price, retailer) == [name |-> name, price |-> price, retailer |-> retailer]

\* Lines 194-217, the body of the loop for one container h read by the unit of
\* retailer r: the name element's stripped text, the price element's stripped
\* text cleaned and parsed, and the Product; any exception (no such element, a
\* handle of a replaced document, ValueError) skips the container.
NameRead(r, h, isStale) ==
    ~isStale /\ h.has_name /\ name_selector(h.site) = name_selector(r)
PriceRead(r, h, isStale) ==
    ~isStale /\ h.has_price /\ price_selector(h.site) = price_selector(r)

ReadProduct(r, h, isStale) ==
    IF /\ NameRead(r, h, isStale)
       /\ PriceRead(r, h, isStale)
       /\ ParsePrice(Strip(h.price)) # ValueError
    THEN <<Product(Strip(h.name), ParsePrice(Strip(h.price)), r)>>
    ELSE <<>>

\* Lines 188-191: the container query; an exception is logged by the except
\* clause of line 219 and the products so far (none) are returned. An empty
\* result ends the loop at once.
Find(u) ==
    /\ ust[u] = "running" /\ pc[u] = "find"
    /\ Sched(u)
    /\ \/ LET hs == QueryContainers(product_container(retailers[u]), cur) IN
            IF hs = <<>>
            THEN /\ LeavePage(u, FALSE, <<>>)
                 /\ failures' = failures
                 /\ found' = found
            ELSE /\ containers' = [containers EXCEPT ![u] = hs]
                 /\ found' = [found EXCEPT ![u] = @ + Len(hs)]
                 /\ stale' = [stale EXCEPT ![u] = FALSE]
                 /\ ci' = [ci EXCEPT ![u] = 1]
                 /\ products' = [products EXCEPT ![u] = <<>>]
                 /\ pc' = [pc EXCEPT ![u] = "read"]
                 /\ UNCHANGED <<failures, ust, pg, retailer_products, errors, scrolled>>
       \/ /\ MayFail /\ Fails
          /\ LeavePage(u, TRUE, <<>>)
          /\ found' = found
    /\ UNCHANGED <<driver, cur, web, navigated>>
    /\ UNCHANGED callerVars

\* One iteration of the loop of line 193; after the last container the list is
\* returned to crawl_retailer.
AfterSkipAbort(u, got) == Len(containers[u]) + 1
AfterSkip(u, got) == ci[u] + 1

ReadContainer(u) ==
    /\ ust[u] = "running" /\ pc[u] = "read"
    /\ Sched(u)
    /\ LET got == ReadProduct(retailers[u], containers[u][ci[u]], stale[u])
           all == products[u] \o got
           nxt == IF got = <<>> THEN AfterSkip(u, got) ELSE ci[u] + 1
       IN  IF nxt > Len(containers[u])
           THEN LeavePage(u, FALSE, all)
           ELSE /\ products' = [products EXCEPT ![u] = all]
                /\ ci' = [ci EXCEPT ![u] = nxt]
                /\ UNCHANGED <<ust, pc, pg, containers, stale, retailer_products,
                               errors, scrolled>>
    /\ UNCHANGED <<driver, cur, web, failures, navigated, found>>
    /\ UNCHANGED callerVars

\* ------------------------------------------------- parallel_crawl, collecting
Put(m, k, v) == [x \in DOMAIN m \cup {k} |-> IF x = k THEN v ELSE m[x]]

\* Lines 238-246, one turn of the loop over as_completed: the result of a
\* finished future enters the map and, when not empty, its retailer is appended
\* to successful_retailers; an exception (of the unit, or the TypeError of an
\* unhashable key) is logged and nothing enters the map.
StoreResultIfAny(u) ==
    all_products' = IF retailer_products[u] # <<>>
                    THEN Put(all_products, retailers[u], retailer_products[u])
                    ELSE all_products
StoreResult(u) == all_products' = Put(all_products, retailers[u], retailer_products[u])

Collect(u) ==
    /\ mpc = "collect"
    /\ Sched(0)
    /\ ust[u] \in {"done", "raised"}
    /\ ust' = [ust EXCEPT ![u] = "collected"]
    /\ IF ust[u] = "done" /\ Hashable(retailers[u])
       THEN /\ StoreResult(u)
            /\ successful_retailers' =
                  IF retailer_products[u] # <<>>
                  THEN Append(successful_retailers, retailers[u])
                  ELSE successful_retailers
            /\ crawl_errors' = crawl_errors
       ELSE /\ all_products' = all_products
            /\ successful_retailers' = successful_retailers
            /\ crawl_errors' = crawl_errors \cup {u}
    /\ UNCHANGED <<driver, cur, web, failures, mpc, retailers, pc, pg, containers, stale,
                   products, retailer_products, navigated, errors, found, scrolled, ci, csv,
                   collection>>

\* Lines 248-250: every future is collected, the executor is shut down,
\* _save_to_csv writes one file per retailer of the map and the map is returned.
\* save_to_mongo (lines 169-179), the one writer of self.collection, has no
\* call site: neither parallel_crawl nor main invokes it.
SaveToCsv ==
    /\ mpc = "collect"
    /\ Sched(0)
    /\ \A u \in Units : ust[u] = "collected"
    /\ csv' = all_products
    /\ mpc' = "returned"
    /\ UNCHANGED <<driver, cur, web, failures, retailers, all_products,
                   successful_retailers, crawl_errors, collection>>
    /\ UNCHANGED unitVars

\* __del__, lines 262-267: the finalizer of the crawler quits the session, if
\* one was started. It runs when the object is no longer referenced, which is
\* after parallel_crawl has returned to main.
Del ==
    /\ mpc = "returned"
    /\ driver
    /\ driver' = FALSE
    /\ UNCHANGED <<cur, web, failures>>
    /\ UNCHANGED unitVars
    /\ UNCHANGED callerVars
    /\ UNCHANGED schedVars

\* ---------------------------------------------------------- specifications
UnitStep(u) ==
    \/ StartUnit(u)
    \/ Entry(u)
    \/ Get(u)
    \/ Wait(u)
    \/ ScrollPage(u)
    \/ Find(u)
    \/ ReadContainer(u)

Next ==
    \/ \E req \in Requests : ParallelCrawl(req)
    \/ \E u \in Units : Submit(u)
    \/ \E u \in Units : UnitStep(u)
    \/ \E u \in Units : Collect(u)
    \/ SaveToCsv
    \/ Del

Spec == Init /\ [][Next]_vars


\* One _extract_products call on its own: the crawl of one registered retailer
\* has reached the query on its last product page, the pages before it were
\* empty, and the document of the last page is any of Documents.
InitExtract ==
    \E r \in RetailerKeys, d \in Documents :
        LET pages == product_pages(r)
            last == pages[Len(pages)]
        IN  /\ driver = TRUE
            /\ cur = last
            /\ web = [p \in Pages |-> IF p = last THEN d ELSE <<>>]
            /\ failures = 0
            /\ mpc = "collect"
            /\ retailers = <<r>>
            /\ ust = <<"running">> /\ pc = <<"find">> /\ pg = <<Len(pages)>>
            /\ containers = << <<>> >> /\ stale = <<FALSE>> /\ products = << <<>> >>
            /\ retailer_products = << <<>> >>
            /\ navigated = <<pages>>
            /\ errors = <<0>> /\ found = <<0>>
            /\ scrolled = <<IF scroll_pagination(r) THEN max_scrolls ELSE 0>>
            /\ ci = <<0>>
            /\ all_products = EmptyMap
            /\ successful_retailers = <<>>
            /\ crawl_errors = {}
            /\ active = 1 /\ switches = 0
            /\ csv = EmptyMap
            /\ collection = EmptyMap

NextExtract ==
    \/ Find(1)
    \/ ReadContainer(1)
    \/ Collect(1)
    \/ SaveToCsv

ExtractSpec == InitExtract /\ [][NextExtract]_vars

\* The crawl cycles in which the environment makes no driver call fail and no
\* crawl is preempted: what is left is the pool's dispatch, under the fairness
\* of threads that keep running (a step that can be taken is taken).
InitPool ==
    /\ driver \in BOOLEAN /\ cur = Blank /\ web = SiteContent
    /\ failures = MaxFailures /\ switches = MaxSwitches /\ active = 0
    /\ mpc = "constructed" /\ retailers = <<>>
    /\ ust = <<>> /\ pc = <<>> /\ pg = <<>> /\ containers = <<>> /\ stale = <<>>
    /\ products = <<>> /\ retailer_products = <<>> /\ navigated = <<>>
    /\ errors = <<>> /\ found = <<>> /\ scrolled = <<>> /\ ci = <<>>
    /\ all_products = EmptyMap /\ successful_retailers = <<>>
    /\ crawl_errors = {} /\ csv = EmptyMap /\ collection = EmptyMap

PoolSpec == InitPool /\ [][Next]_vars /\ WF_vars(Next)

\* The crawl cycles in which driver calls fail or run out of time, up to
\* MaxFailures of them, and no crawl is preempted, under the same fairness.
InitDeadlines ==
    /\ driver \in BOOLEAN /\ cur = Blank /\ web = SiteContent
    /\ failures = 0 /\ switches = MaxSwitches /\ active = 0
    /\ mpc = "constructed" /\ retailers = <<>>
    /\ ust = <<>> /\ pc = <<>> /\ pg = <<>> /\ containers = <<>> /\ stale = <<>>
    /\ products = <<>> /\ retailer_products = <<>> /\ navigated = <<>>
    /\ errors = <<>> /\ found = <<>> /\ scrolled = <<>> /\ ci = <<>>
    /\ all_products = EmptyMap /\ successful_retailers = <<>>
    /\ crawl_errors = {} /\ csv = EmptyMap /\ collection = EmptyMap

DeadlineSpec == InitDeadlines /\ [][Next]_vars /\ WF_vars(Next)

\* ================================================================= claims
IsPrefix(a, b) == Len(a) <= Len(b) /\ SubSeq(b, 1, Len(a)) = a
Finished(u) == ust[u] \in {"done", "collected"}
Crawls(u) == driver /\ retailers[u] \in RetailerKeys
UnitsOf(r) == {u \in Units : retailers[u] = r}
Price_1299_99 == [num |-> 129999, den |-> 100]

\* The products a retailer's own selectors yield on a page it has loaded,
\* every handle live.
RECURSIVE ReadAll(_, _)
ReadAll(r, hs) ==
    IF hs = <<>> THEN <<>> ELSE ReadProduct(r, Head(hs), FALSE) \o ReadAll(r, Tail(hs))
ProductsOfPage(r, p) == ReadAll(r, QueryContainers(product_container(r), p))

\* ---------------------------------------------------------------------- C1
\* The unit has issued a driver call and has more to issue.
InCrawl(u) == ust[u] = "running" /\ navigated[u] # <<>>

\* C1: no two crawl_retailer units that run concurrently for different
\* retailers issue their driver calls against the same driver session.
C1_SessionNotShared ==
    \A u, v \in Units :
        (u # v /\ retailers[u] # retailers[v] /\ InCrawl(u) /\ InCrawl(v))
            => SessionOf(u) # SessionOf(v)

\* ---------------------------------------------------------------------- C2
Distinct(l) == \A i, j \in 1..Len(l) : i # j => l[i] # l[j]

\* C2: for N distinct requested retailers the returned map has exactly N
\* entries, one per requested retailer, and the entry of a retailer whose unit
\* an exception escaped is an empty product list.
C2_FullMapOnFailure ==
    (mpc = "returned" /\ Distinct(retailers))
        => /\ DOMAIN all_products = {retailers[u] : u \in Units}
           /\ \A u \in crawl_errors : all_products[retailers[u]] = <<>>

\* ---------------------------------------------------------------------- C3
RECURSIVE PagesExcept(_, _, _)
\* The products of the pages of r from index i on, those of F left out.
PagesExcept(r, i, F) ==
    IF i > Len(product_pages(r)) THEN <<>>
    ELSE (IF i \in F THEN <<>> ELSE ProductsOfPage(r, product_pages(r)[i]))
            \o PagesExcept(r, i + 1, F)

C3_Navigation ==
    \A u \in Units :
        /\ Crawls(u) => IsPrefix(navigated[u], product_pages(retailers[u]))
        /\ (Crawls(u) /\ Finished(u)) => navigated[u] = product_pages(retailers[u])
        /\ (Crawls(u) /\ Finished(u) /\ Len(retailers) = 1) =>
              \E F \in SUBSET (1..Len(product_pages(retailers[u]))) :
                  /\ Cardinality(F) = errors[u]
                  /\ retailer_products[u] = PagesExcept(retailers[u], 1, F)

C3_Accumulates ==
    \A u \in Units : IsPrefix(retailer_products[u], retailer_products'[u])

\* C3: crawl_retailer navigates to every configured page exactly once, in the
\* configured order, whatever pages fail; a failing page takes away no product
\* accumulated before it, and the pages that do not fail still give their
\* products (with the session to itself: all of them, in page order).
C3_EveryPageOnce == [](C3_Navigation) /\ [][C3_Accumulates]_vars

\* A crawl of pick_n_pay whose second page of three failed and whose first and
\* third pages gave their products.
C3_Witness ==
    \E u \in Units :
        /\ retailers[u] = "pick_n_pay" /\ ust[u] = "done" /\ errors[u] = 1
        /\ navigated[u] = product_pages("pick_n_pay")
        /\ retailer_products[u] = PagesExcept("pick_n_pay", 1, {2})
        /\ Len(retailer_products[u]) = 3

\* ---------------------------------------------------------------------- C4
GoodContainer(c) ==
    c.has_name /\ c.has_price /\ FloatOk(CleanPrice(Strip(c.price)))

\* C4: _extract_products returns exactly the subsequence of the containers of
\* the query whose name read, price read and price parse succeed, in document
\* order: a failing container is skipped and the others are all processed.
C4_GoodSubsequence ==
    \A u \in Units :
        (Finished(u) /\ errors[u] = 0) =>
            LET good == SelectSeq(web[PageOf(u)], GoodContainer) IN
                retailer_products[u] =
                    [i \in 1..Len(good) |->
                        Product(Strip(good[i].name),
                                FloatVal(CleanPrice(Strip(good[i].price))),
                                retailers[u])]

\* A document whose first container fails and whose second one is extracted.
C4_Witness ==
    /\ Len(retailers) = 1 /\ ust[1] = "done" /\ errors[1] = 0
    /\ Len(web[PageOf(1)]) = 2
    /\ ~GoodContainer(web[PageOf(1)][1])
    /\ GoodContainer(web[PageOf(1)][2])
    /\ Len(retailer_products[1]) = 1

\* ---------------------------------------------------------------------- C5
\* C5: a container's price is the number left after removing every character
\* that is no digit and no point, and the container is skipped when that is
\* no number: "$1,299.99", "R 1 299,99" and "1299.99" give 1299.99, and
\* "Out of stock" and a text of two points give no product.
C5_PriceExamples ==
    \A u \in Units :
        (/\ Finished(u) /\ errors[u] = 0
         /\ Len(web[PageOf(u)]) = 1
         /\ web[PageOf(u)][1].has_name /\ web[PageOf(u)][1].has_price) =>
            LET t == web[PageOf(u)][1].price
                got == retailer_products[u]
            IN  /\ t \in {P_Dollar, P_Rand, P_Plain} =>
                    (Len(got) = 1 /\ got[1].price = Price_1299_99)
                /\ t \in {P_OutOfStock, P_TwoPoints} => got = <<>>

\* ---------------------------------------------------------------------- C6
ValidProduct(p) ==
    /\ p.name # <<>>
    /\ p.price # ValueError /\ p.price.num >= 0 /\ p.price.den > 0
    /\ p.retailer \in RetailerKeys

AllValid(ps) == \A i \in 1..Len(ps) : ValidProduct(ps[i])

\* C6: every Product of a result of crawl_retailer or parallel_crawl, or
\* handed to a sink, has a non-empty name, a parsed price >= 0 and the
\* identifier of a registered retailer.
C6_NoPartialProduct ==
    /\ \A u \in Units : AllValid(retailer_products[u])
    /\ \A r \in DOMAIN all_products : AllValid(all_products[r])
    /\ \A r \in DOMAIN csv : AllValid(csv[r])

\* ---------------------------------------------------------------------- C7
\* The status the rule gives the crawl of unit u.
StatusByRule(u) ==
    IF errors[u] = Len(product_pages(retailers[u])) /\ found[u] = 0 THEN "failed"
    ELSE IF errors[u] >= 1 /\ retailer_products[u] # <<>> THEN "partial"
    ELSE "success"

\* C7: the result produced for a retailer carries its page errors and the
\* status of the rule (failed, partial, success): two crawls that produce the
\* same result have the same status.
C7_ResultCarriesStatus ==
    \A u, v \in Units :
        (/\ Crawls(u) /\ Crawls(v) /\ Finished(u) /\ Finished(v)
         /\ retailer_products[u] = retailer_products[v])
            => StatusByRule(u) = StatusByRule(v)

\* ---------------------------------------------------------------------- C8
\* Every page of the unit loaded and every container query returned nothing.
QuietCrawl(u) ==
    /\ Crawls(u) /\ ust[u] = "collected"
    /\ navigated[u] = product_pages(retailers[u])
    /\ errors[u] = 0 /\ found[u] = 0

QuietRetailer(r) == UnitsOf(r) # {} /\ \A u \in UnitsOf(r) : QuietCrawl(u)

\* C8: a retailer whose pages all load and whose container queries all return
\* no element is in the returned map with an empty product sequence, and no
\* error is raised or recorded for it.
C8_EmptyIsSuccess ==
    mpc = "returned" =>
        \A r \in RetailerKeys :
            QuietRetailer(r) =>
                /\ r \in DOMAIN all_products
                /\ all_products[r] = <<>>
                /\ UnitsOf(r) \cap crawl_errors = {}

C8_Witness ==
    /\ mpc = "returned"
    /\ QuietRetailer("woolworths")
    /\ "woolworths" \in DOMAIN all_products
    /\ all_products["woolworths"] = <<>>

\* ---------------------------------------------------------------------- C9
MostUnits == IF MaxReq > Len(RETAILERS) THEN MaxReq ELSE Len(RETAILERS)
Queued(u) == u \in Units /\ ust[u] = "pending"
Started(u) == u \in Units /\ ust[u] \in {"running", "done", "raised", "collected"}

C9_StartsBelowBound ==
    \A u \in Units :
        (ust[u] = "pending" /\ ust'[u] = "running") => Cardinality(Running) < 3

\* C9: at most 3 crawl_retailer units run at any moment, a queued unit starts
\* only while fewer than 3 run, and every submitted unit is run in the end.
C9_BoundedPool ==
    /\ [](Cardinality(Running) <= 3)
    /\ [][C9_StartsBelowBound]_vars
    /\ \A u \in 1..MostUnits : Queued(u) ~> Started(u)

\* Three units run and a fourth one waits in the queue.
C9_Witness ==
    /\ Cardinality(Running) = 3
    /\ \E u \in Units : ust[u] = "pending"

\* --------------------------------------------------------------------- C10
\* C10: when the browser driver cannot be started the cycle aborts: no unit
\* is submitted to the pool, and no result map is returned or file written.
C10_AbortsWithoutDriver ==
    ~driver =>
        /\ \A u \in Units : ust[u] = "new"
        /\ mpc # "returned"
        /\ csv = EmptyMap

\* --------------------------------------------------------------------- C11
\* C11: no sink is written before every dispatched unit is collected, and
\* when parallel_crawl has returned each of the two sinks, the per-retailer
\* files and the document collection, holds exactly the returned map: one
\* write per retailer of the map, a retailer with no product included.
C11_SinksGetTheMap ==
    /\ (csv # EmptyMap \/ collection # EmptyMap) =>
            \A u \in Units : ust[u] = "collected"
    /\ mpc = "returned" => (csv = all_products /\ collection = all_products)

\* --------------------------------------------------------------------- C12
\* C12: once parallel_crawl has returned, the driver session its units used
\* is closed: the release is part of every exit path of the crawl.
C12_SessionReleased == mpc = "returned" => ~driver

\* --------------------------------------------------------------------- C13
\* The unit is past the scrolling of its current page.
PastScroll(u) == ust[u] = "running" /\ pc[u] \in {"find", "read"}

\* C13: on a page whose content does not grow, a retailer of infinite-scroll
\* pagination stops after the two scrolls that showed no growth, a retailer of
\* scroll pagination does exactly max_scrolls scrolls, and a retailer of no
\* pagination does none.
C13_ScrollsByMode ==
    \A u \in Units :
        PastScroll(u) =>
            scrolled[u] = IF infinite_scroll(retailers[u]) THEN 2
                          ELSE IF scroll_pagination(retailers[u]) THEN max_scrolls
                          ELSE 0

\* --------------------------------------------------------------------- C14
\* While the containers of a page are read, they are the result of one
\* container query, in document order, and the products so far are those of
\* the containers read, in that order.
C14_DocumentOrder ==
    \A u \in Units :
        (ust[u] = "running" /\ pc[u] = "read") =>
            /\ \E p \in Pages :
                  containers[u] = QueryContainers(product_container(retailers[u]), p)
            /\ \E k \in 0..(ci[u] - 1) :
                  products[u] = ReadAll(retailers[u], SubSeq(containers[u], 1, k))

\* The result of a unit changes only when the loop leaves a page: the
\* products of that page, in the order of its containers, go behind those of
\* the pages before it, and the loop moves to the next page or returns.
C14_PageGroups ==
    \A u \in Units :
        retailer_products'[u] # retailer_products[u] =>
            /\ pc[u] = "read"
            /\ \E k \in 0..ci[u] :
                  retailer_products'[u] =
                      retailer_products[u]
                          \o ReadAll(retailers[u], SubSeq(containers[u], 1, k))
            /\ (pg'[u] = pg[u] + 1 \/ ust'[u] = "done")

\* C14: the product sequence of a retailer's result lists the products page
\* by page in the configured page order and, within a page, in the document
\* order of their containers; the results of different retailers are
\* collected as they complete, in no order of submission.
C14_PageThenDocumentOrder == [](C14_DocumentOrder) /\ [][C14_PageGroups]_vars

\* The crawl of pick_n_pay has returned the two products of its first page and
\* the one of its third, in that order, and the result of checkers, submitted
\* after it, has been collected before it.
C14_Witness ==
    /\ Len(retailers) = 3
    /\ retailers[1] = "pick_n_pay" /\ ust[1] = "done"
    /\ retailer_products[1] =
          ProductsOfPage("pick_n_pay", "pnp/All-Products")
              \o ProductsOfPage("pick_n_pay", "pnp/Personal-Care")
    /\ Len(ProductsOfPage("pick_n_pay", "pnp/All-Products")) = 2
    /\ Len(retailer_products[1]) = 3
    /\ ust[2] = "collected" /\ "checkers" \in DOMAIN all_products

\* --------------------------------------------------------------------- C15
\* A step of the crawl_retailer unit u leaves the result map and the list of
\* successful retailers alone.
C15_MapIsTheCollectors ==
    \A u \in Units :
        UnitStep(u) =>
            (all_products' = all_products /\ successful_retailers' = successful_retailers)

\* A step of unit u writes nothing that the running unit v reads: not the
\* document of the session v queries, not the life of the handles v holds.
C15_NothingShared ==
    \A u, v \in Units :
        (u # v /\ ust[v] = "running" /\ UnitStep(u)) =>
            (cur' = cur /\ stale'[v] = stale[v])

\* C15: the result map is written by the collecting control flow only, and a
\* crawl_retailer unit writes to no mutable structure that another unit or
\* the collector reads or writes: its products go back through its future.
C15_WorkersShareNothing == [][C15_MapIsTheCollectors /\ C15_NothingShared]_vars

\* --------------------------------------------------------------------- C16
\* The products of the first i - 1 pages of r, each extracted from its
\* unchanged document.
PagesBefore(r, i) == PagesExcept(r, 1, i..Len(product_pages(r)))

\* C16: extraction is idempotent. With the pages unchanged and no driver call
\* failing, every call of crawl_retailer for a retailer has, before each page,
\* the extraction of the pages before it and nothing else, and two calls for
\* the same retailer return identical product sequences: the later call
\* neither includes nor is affected by the products of the earlier one.
C16_Idempotent ==
    /\ \A u \in Units :
          (Crawls(u) /\ ust[u] = "running" /\ pc[u] = "get") =>
              retailer_products[u] = PagesBefore(retailers[u], pg[u])
    /\ \A u, v \in Units :
          (Crawls(u) /\ retailers[u] = retailers[v] /\ Finished(u) /\ Finished(v)) =>
              /\ retailer_products[u] = retailer_products[v]
              /\ retailer_products[u] = PagesExcept(retailers[u], 1, {})

\* crawl_retailer has run twice for pick_n_pay and both calls returned the
\* same three products.
C16_Witness ==
    /\ retailers = <<"pick_n_pay", "pick_n_pay">>
    /\ ust[1] = "done" /\ ust[2] = "done"
    /\ Len(retailer_products[1]) = 3
    /\ retailer_products[2] = retailer_products[1]

\* --------------------------------------------------------------------- C17
C17_DispatchOf(req) == IF req.given THEN req.list ELSE RETAILERS

\* C17: parallel_crawl dispatches a unit for exactly the retailers of the
\* explicit list it is given, whatever the list, the empty list included (no
\* unit), and for all registered retailers only when no list is given.
C17_DispatchesTheList ==
    [][\A req \in Requests : ParallelCrawl(req) => retailers' = C17_DispatchOf(req)]_vars

\* --------------------------------------------------------------------- C18
\* The wait of unit u ended without the element: its deadline passed.
WaitTimedOut(u) == Wait(u) /\ pc'[u] \notin {"scroll", "find"}

\* A wait that runs out of time is an error of its page and of nothing else:
\* one error is logged, the products so far are kept, the loop takes the next
\* page or, after the last one, returns; no other unit and not the caller is
\* touched.
C18_TimeoutIsPageError ==
    \A u \in Units :
        WaitTimedOut(u) =>
            /\ errors'[u] = errors[u] + 1
            /\ retailer_products'[u] = retailer_products[u]
            /\ IF LastPage(u) THEN ust'[u] = "done"
               ELSE ust'[u] = "running" /\ pc'[u] = "get" /\ pg'[u] = pg[u] + 1
            /\ \A v \in Units \ {u} : ust'[v] = ust[v] /\ pc'[v] = pc[v]
            /\ mpc' = mpc

\* An exception leaves crawl_retailer for an unhashable identifier only.
C18_NoCrash == \A u \in Units : ust[u] = "raised" => ~Hashable(retailers[u])

\* C18: with driver calls that return or fail within their deadline,
\* parallel_crawl returns in the end under fair scheduling, and a wait that
\* exceeds its deadline is an error of that page only, never a crash of the
\* retailer's unit or of the cycle.
C18_ReturnsInTheEnd ==
    /\ <>(mpc = "returned")
    /\ [](C18_NoCrash)
    /\ [][C18_TimeoutIsPageError]_vars

\* The cycle has returned, and the crawl of pick_n_pay, whose first page met
\* an error, is in the map with the product of its third page.
C18_Witness ==
    /\ mpc = "returned"
    /\ \E u \in Units :
          /\ retailers[u] = "pick_n_pay" /\ ust[u] = "collected" /\ errors[u] = 1
          /\ u \notin crawl_errors
          /\ retailer_products[u] = ProductsOfPage("pick_n_pay", "pnp/Personal-Care")
          /\ Len(retailer_products[u]) = 1
          /\ all_products["pick_n_pay"] = retailer_products[u]

\* --------------------------------------------------------------------- C19
\* Product x is one that the selectors of r yield on a product page of r.
OnOwnPage(r, x) ==
    \E j \in 1..Len(product_pages(r)) :
        \E i \in 1..Len(ProductsOfPage(r, product_pages(r)[j])) :
            ProductsOfPage(r, product_pages(r)[j])[i] = x

\* C19: in every interleaving of the units, every Product of the list of
\* retailer R was read, with R's selectors, from a document loaded by R's own
\* navigation to one of R's product pages, never from a page that the unit of
\* another retailer navigated to in between.
C19_ReadFromOwnPages ==
    \A u \in Units :
        retailers[u] \in RetailerKeys =>
            \A i \in 1..Len(retailer_products[u]) :
                OnOwnPage(retailers[u], retailer_products[u][i])

\* --------------------------------------------------------------------- C20
\* C20: when parallel_crawl has returned, whatever list it was given (one
\* that repeats a retailer included), successful_retailers names no retailer
\* twice, and names exactly the retailers whose product list in the returned
\* map is not empty.
C20_SuccessfulRetailers ==
    mpc = "returned" =>
        /\ Distinct(successful_retailers)
        /\ {successful_retailers[i] : i \in 1..Len(successful_retailers)}
              = {r \in DOMAIN all_products : all_products[r] # <<>>}

====
